---- MODULE Spec2Model ----
(***************************************************************************)
(* Model of polygon_exporter.py: three fail-soft height fetchers and the   *)
(* sequential poll loop that prints their readings and republishes them as *)
(* four labelled Prometheus gauges.                                        *)
(***************************************************************************)
EXTENDS Integers, Sequences, FiniteSets, TLC

\* Number of poll cycles explored (the loop itself is unbounded).
MaxCycles == 2

VARIABLES
    pc,                \* position of the main thread
    args,              \* parsed command line (immutable after startup)
    httpd,             \* TRUE once start_http_server has bound the port
    REGISTRY,          \* names of the collectors registered
    bor, heimdall, checkpoint, local,   \* gauge children: sets of <<label, value>>
    bor_height, heimdall_height, checkpoint_height, local_height,
    resp,              \* outcome of each fetcher's HTTP request in this cycle
    stdout,            \* lines written to standard output
    cycle              \* number of the poll cycle in progress

vars == <<pc, args, httpd, REGISTRY, bor, heimdall, checkpoint, local,
          bor_height, heimdall_height, checkpoint_height, local_height,
          resp, stdout, cycle>>

----------------------------------------------------------------------------
\* Values

\* A local name of the loop that has not been assigned yet.
Unbound == -1

\* argparse default=False: the endpoint is not configured.
Disabled == [scheme |-> "", userinfo |-> "", host |-> <<>>, port |-> ""]

URL(scheme, host, port) ==
    [scheme |-> scheme, userinfo |-> "", host |-> host, port |-> port]

BorURL      == URL("https", <<"R", "p", "c">>, "8545")
HeimdallURL == URL("https", <<"h", "d">>, "1317")
StakingURL  == URL("https", <<"A", "p", "i">>, "")

\* The command lines explored.
ArgChoices ==
    { [bor |-> BorURL,   heimdall |-> HeimdallURL, staking |-> StakingURL],
      [bor |-> Disabled, heimdall |-> HeimdallURL, staking |-> HeimdallURL] }

\* str.lower() on the characters used in host names.
Lower(c) ==
    CASE c = "R" -> "r"
      [] c = "A" -> "a"
      [] OTHER   -> c

\* urlparse(url).hostname: the host part of the netloc, without user info
\* and port, lower-cased.
hostname(url) == [i \in 1..Len(url.host) |-> Lower(url.host[i])]

----------------------------------------------------------------------------
\* HTTP outcomes

TransportError == [kind |-> "exception"]

Response(status, body) ==
    [kind |-> "response", status_code |-> status, body |-> body]

NoResponse == [kind |-> "none"]

\* No fetcher has issued its request yet.
NoResponses == [bor |-> NoResponse, heimdall |-> NoResponse, local |-> NoResponse]

\* A body that is not JSON.
NotJSON == [json |-> FALSE]

JSON(data) == [json |-> TRUE, data |-> data]

\* Statuses other than 200 that reach the caller as a response.
ErrorStatuses == {404}

BorBodies ==
    { NotJSON,
      JSON([id |-> 1]),
      JSON([result |-> [hash |-> "0xab"]]),
      JSON([result |-> [number |-> <<"0", "x">>]]),
      JSON([result |-> [number |-> <<"1">>]]),
      JSON([result |-> [number |-> <<"0", "x", "1", "a">>]]) }

HeimdallBodies ==
    { NotJSON,
      JSON([result |-> [id |-> 55]]),
      JSON([height |-> 100, result |-> [proposer |-> "0x1"]]),
      JSON([height |-> 0,   result |-> [id |-> 1]]),
      JSON([height |-> 100, result |-> [id |-> 55]]),
      JSON([height |-> 101, result |-> [id |-> 56]]) }

LocalBodies ==
    { NotJSON,
      JSON([status |-> "error"]),
      JSON([result |-> <<>>]),
      JSON([result |-> <<[signerAddress |-> "0x1"]>>]),
      JSON([result |-> <<[checkpointNumber |-> 1]>>]),
      JSON([result |-> <<[checkpointNumber |-> 42], [checkpointNumber |-> 41]>>]) }

\* What session.get / session.post can produce for an endpoint: an
\* exception (always the case for an endpoint that is not a URL), or a
\* response with some status and body.
Outcomes(url, bodies) ==
    IF url = Disabled
    THEN {TransportError}
    ELSE {TransportError}
         \cup {Response(s, NotJSON) : s \in ErrorStatuses}
         \cup {Response(200, b) : b \in bodies}

----------------------------------------------------------------------------
\* Fetchers

Return(v) == [raised |-> FALSE, value |-> v]
Raise     == [raised |-> TRUE,  value |-> 0]

Has(d, key) == key \in DOMAIN d

HexDigit(c) ==
    CASE c = "0" -> 0 [] c = "1" -> 1 [] c = "2" -> 2 [] c = "3" -> 3
      [] c = "4" -> 4 [] c = "5" -> 5 [] c = "6" -> 6 [] c = "7" -> 7
      [] c = "8" -> 8 [] c = "9" -> 9 [] c = "a" -> 10 [] c = "b" -> 11
      [] c = "c" -> 12 [] c = "d" -> 13 [] c = "e" -> 14 [] c = "f" -> 15
      [] OTHER -> -1

RECURSIVE HexFold(_, _)
HexFold(s, acc) ==
    IF s = <<>> THEN acc
    ELSE IF HexDigit(Head(s)) < 0 THEN -1
    ELSE HexFold(Tail(s), acc * 16 + HexDigit(Head(s)))

\* int(blockhex, 16): an optional "0x" prefix, then at least one hex digit;
\* -1 stands for ValueError.
HexToInt(s) ==
    LET digits == IF Len(s) >= 2 /\ s[1] = "0" /\ s[2] = "x"
                  THEN SubSeq(s, 3, Len(s)) ELSE s
    IN  IF digits = <<>> THEN -1 ELSE HexFold(digits, 0)

\* Variant of get_bor_height without the try/except around the request.
get_bor_height_Unguarded(r) ==
    IF r.kind = "exception" THEN Raise
    ELSE IF r.status_code = 200
    THEN IF ~r.body.json THEN Raise
         ELSE IF ~Has(r.body.data, "result") THEN Raise
         ELSE IF ~Has(r.body.data.result, "number") THEN Raise
         ELSE IF HexToInt(r.body.data.result.number) < 0 THEN Raise
         ELSE Return(HexToInt(r.body.data.result.number))
    ELSE Return(0)

get_bor_height(r) ==
    IF r.kind = "exception" THEN Return(0)
    ELSE IF r.status_code = 200
    THEN IF ~r.body.json THEN Raise
         ELSE IF ~Has(r.body.data, "result") THEN Raise
         ELSE IF ~Has(r.body.data.result, "number") THEN Raise
         ELSE IF HexToInt(r.body.data.result.number) < 0 THEN Raise
         ELSE Return(HexToInt(r.body.data.result.number))
    ELSE Return(0)

get_heimdall_height(r) ==
    IF r.kind = "exception" THEN Return(<<0, 0>>)
    ELSE IF r.status_code = 200
    THEN IF ~r.body.json THEN Raise
         ELSE IF ~Has(r.body.data, "height") THEN Raise
         ELSE IF ~Has(r.body.data, "result") THEN Raise
         ELSE IF ~Has(r.body.data.result, "id") THEN Raise
         ELSE Return(<<r.body.data.height, r.body.data.result.id>>)
    ELSE Return(<<0, 0>>)

\* Variant of get_local_height that tolerates an empty result list.
get_local_height_Hardened(r) ==
    IF r.kind = "exception" THEN Return(0)
    ELSE IF r.status_code = 200
    THEN IF ~r.body.json THEN Raise
         ELSE IF ~Has(r.body.data, "result") THEN Raise
         ELSE IF Len(r.body.data.result) = 0 THEN Return(0)
         ELSE IF ~Has(r.body.data.result[1], "checkpointNumber") THEN Raise
         ELSE Return(r.body.data.result[1].checkpointNumber)
    ELSE Return(0)

get_local_height(r) ==
    IF r.kind = "exception" THEN Return(0)
    ELSE IF r.status_code = 200
    THEN IF ~r.body.json THEN Raise
         ELSE IF ~Has(r.body.data, "result") THEN Raise
         ELSE IF Len(r.body.data.result) = 0 THEN Raise
         ELSE IF ~Has(r.body.data.result[1], "checkpointNumber") THEN Raise
         ELSE Return(r.body.data.result[1].checkpointNumber)
    ELSE Return(0)

----------------------------------------------------------------------------
\* Gauges

GaugeNames ==
    { "polygon_latest_bor_height", "polygon_latest_heimdall_height",
      "polygon_latest_checkpoint_height", "polygon_local_checkpoint_height" }

DefaultCollectors == {"process", "platform", "gc"}

\* gauge.labels(label).set(value): the child for the label is created on
\* first use and its value overwritten.
LabelsSet(gauge, label, value) ==
    {p \in gauge : p[1] # label} \cup {<<label, value>>}

\* Variants of UpdateGauge: the threshold off by one; the gauge cleared by
\* a reading that does not pass; the label built from the reading.
UpdateGauge_AtLeastOne(gauge, url, height) ==
    IF height >= 1 THEN LabelsSet(gauge, hostname(url), height) ELSE gauge

UpdateGauge_Clearing(gauge, url, height) ==
    IF height > 1 THEN LabelsSet(gauge, hostname(url), height) ELSE {}

UpdateGauge_LabelPerReading(gauge, url, height) ==
    IF height > 1
    THEN LabelsSet(gauge,
                   hostname(url) \o <<IF height % 2 = 0 THEN "0" ELSE "1">>,
                   height)
    ELSE gauge

\* if height > 1: gauge.labels(urlparse(url).hostname).set(height)
UpdateGauge(gauge, url, height) ==
    IF height > 1 THEN LabelsSet(gauge, hostname(url), height) ELSE gauge

----------------------------------------------------------------------------
\* Program

Init ==
    /\ pc = "start"
    /\ args \in ArgChoices
    /\ httpd = FALSE
    /\ REGISTRY = DefaultCollectors
    /\ bor = {} /\ heimdall = {} /\ checkpoint = {} /\ local = {}
    /\ bor_height = Unbound /\ heimdall_height = Unbound
    /\ checkpoint_height = Unbound /\ local_height = Unbound
    /\ resp = NoResponses
    /\ stdout = <<>>
    /\ cycle = 0

gaugeVars  == <<bor, heimdall, checkpoint, local>>
heightVars == <<bor_height, heimdall_height, checkpoint_height, local_height>>

\* for coll in list(REGISTRY._collector_to_names.keys()): REGISTRY.unregister(coll)
ClearRegistry ==
    /\ pc = "start"
    /\ REGISTRY' = {}
    /\ pc' = "bind"
    /\ UNCHANGED <<args, httpd, gaugeVars, heightVars, resp, stdout, cycle>>

\* Variant of BindFail that swallows the exception and carries on.
BindFail_Swallowed ==
    /\ pc = "bind"
    /\ pc' = "register"
    /\ UNCHANGED <<args, httpd, REGISTRY, gaugeVars, heightVars, resp, stdout, cycle>>

\* prometheus_client.start_http_server(args.port) raises: the note is added
\* and the exception re-raised.
BindFail ==
    /\ pc = "bind"
    /\ pc' = "aborted"
    /\ UNCHANGED <<args, httpd, REGISTRY, gaugeVars, heightVars, resp, stdout, cycle>>

BindOk ==
    /\ pc = "bind"
    /\ httpd' = TRUE
    /\ pc' = "register"
    /\ UNCHANGED <<args, REGISTRY, gaugeVars, heightVars, resp, stdout, cycle>>

\* The four Gauge(...) constructors of the else branch; the loop is entered.
RegisterGauges ==
    /\ pc = "register"
    /\ REGISTRY' = REGISTRY \cup GaugeNames
    /\ cycle' = 1
    /\ pc' = "bor"
    /\ UNCHANGED <<args, httpd, gaugeVars, heightVars, resp, stdout>>

\* Variant of FetchBor that publishes the bor height as soon as it is read.
FetchBor_PublishingAtOnce ==
    /\ pc = "bor"
    /\ \E r \in Outcomes(args.bor, BorBodies) :
         /\ resp' = [resp EXCEPT !.bor = r]
         /\ IF get_bor_height(r).raised
            THEN /\ pc' = "crashed"
                 /\ UNCHANGED <<bor_height, bor>>
            ELSE /\ pc' = "heimdall"
                 /\ bor_height' = get_bor_height(r).value
                 /\ bor' = UpdateGauge(bor, args.bor, get_bor_height(r).value)
    /\ UNCHANGED <<args, httpd, REGISTRY, heimdall, checkpoint, local,
                   heimdall_height, checkpoint_height, local_height, stdout, cycle>>

FetchBor ==
    /\ pc = "bor"
    /\ \E r \in Outcomes(args.bor, BorBodies) :
         /\ resp' = [resp EXCEPT !.bor = r]
         /\ IF get_bor_height(r).raised
            THEN /\ pc' = "crashed"
                 /\ UNCHANGED bor_height
            ELSE /\ pc' = "heimdall"
                 /\ bor_height' = get_bor_height(r).value
    /\ UNCHANGED <<args, httpd, REGISTRY, gaugeVars, heimdall_height,
                   checkpoint_height, local_height, stdout, cycle>>

FetchHeimdall ==
    /\ pc = "heimdall"
    /\ \E r \in Outcomes(args.heimdall, HeimdallBodies) :
         /\ resp' = [resp EXCEPT !.heimdall = r]
         /\ IF get_heimdall_height(r).raised
            THEN /\ pc' = "crashed"
                 /\ UNCHANGED <<heimdall_height, checkpoint_height>>
            ELSE /\ pc' = "local"
                 /\ heimdall_height' = get_heimdall_height(r).value[1]
                 /\ checkpoint_height' = get_heimdall_height(r).value[2]
    /\ UNCHANGED <<args, httpd, REGISTRY, gaugeVars, bor_height,
                   local_height, stdout, cycle>>

FetchLocal ==
    /\ pc = "local"
    /\ \E r \in Outcomes(args.staking, LocalBodies) :
         /\ resp' = [resp EXCEPT !.local = r]
         /\ IF get_local_height(r).raised
            THEN /\ pc' = "crashed"
                 /\ UNCHANGED local_height
            ELSE /\ pc' = "print"
                 /\ local_height' = get_local_height(r).value
    /\ UNCHANGED <<args, httpd, REGISTRY, gaugeVars, bor_height,
                   heimdall_height, checkpoint_height, stdout, cycle>>

\* The lines written for one cycle.
Lines(b, h, c, l) ==
    << <<"Bor", b>>, <<"Heimdall", h>>, <<"Checkpoint", c>>, <<"Local", l>> >>

\* Variant of WriteStdout that reports only the readings that pass the
\* gauge threshold.
WriteStdout_OnlyPublished ==
    /\ pc = "print"
    /\ stdout' = stdout \o SelectSeq(Lines(bor_height, heimdall_height,
                                           checkpoint_height, local_height),
                                     LAMBDA line : line[2] > 1)
    /\ pc' = "update"
    /\ UNCHANGED <<args, httpd, REGISTRY, gaugeVars, heightVars, resp, cycle>>

WriteStdout ==
    /\ pc = "print"
    /\ stdout' = stdout \o Lines(bor_height, heimdall_height,
                                 checkpoint_height, local_height)
    /\ pc' = "update"
    /\ UNCHANGED <<args, httpd, REGISTRY, gaugeVars, heightVars, resp, cycle>>

\* Variant of UpdateGauges whose checkpoint gauge is fed the heimdall height.
UpdateGauges_CheckpointFromHeight ==
    /\ pc = "update"
    /\ bor' = UpdateGauge(bor, args.bor, bor_height)
    /\ heimdall' = UpdateGauge(heimdall, args.heimdall, heimdall_height)
    /\ checkpoint' = UpdateGauge(checkpoint, args.heimdall, heimdall_height)
    /\ local' = UpdateGauge(local, args.staking, local_height)
    /\ pc' = "sleep"
    /\ UNCHANGED <<args, httpd, REGISTRY, heightVars, resp, stdout, cycle>>

UpdateGauges ==
    /\ pc = "update"
    /\ bor' = UpdateGauge(bor, args.bor, bor_height)
    /\ heimdall' = UpdateGauge(heimdall, args.heimdall, heimdall_height)
    /\ checkpoint' = UpdateGauge(checkpoint, args.heimdall, checkpoint_height)
    /\ local' = UpdateGauge(local, args.staking, local_height)
    /\ pc' = "sleep"
    /\ UNCHANGED <<args, httpd, REGISTRY, heightVars, resp, stdout, cycle>>

\* Variant of Sleep that leaves the loop after the sleep.
Sleep_ThenExit ==
    /\ pc = "sleep"
    /\ cycle < MaxCycles
    /\ pc' = "exit"
    /\ UNCHANGED <<args, httpd, REGISTRY, gaugeVars, heightVars, resp, stdout, cycle>>

\* time.sleep(args.freq) returns and the while True loop starts over.
Sleep ==
    /\ pc = "sleep"
    /\ cycle < MaxCycles
    /\ cycle' = cycle + 1
    /\ pc' = "bor"
    /\ resp' = NoResponses
    /\ UNCHANGED <<args, httpd, REGISTRY, gaugeVars, heightVars, stdout>>

Next ==
    \/ ClearRegistry
    \/ BindFail
    \/ BindOk
    \/ RegisterGauges
    \/ FetchBor
    \/ FetchHeimdall
    \/ FetchLocal
    \/ WriteStdout
    \/ UpdateGauges
    \/ Sleep

Spec == Init /\ [][Next]_vars

\* The main thread is the only thread of the loop and time.sleep returns.
LiveSpec == Spec /\ WF_vars(Sleep)

----------------------------------------------------------------------------
\* Vocabulary of the properties

Gauges == {"bor", "heimdall", "checkpoint", "local"}

Gauge(g) ==
    CASE g = "bor" -> bor
      [] g = "heimdall" -> heimdall
      [] g = "checkpoint" -> checkpoint
      [] g = "local" -> local

\* The reading of the cycle that belongs to a gauge.
Reading(g) ==
    CASE g = "bor" -> bor_height
      [] g = "heimdall" -> heimdall_height
      [] g = "checkpoint" -> checkpoint_height
      [] g = "local" -> local_height

\* The endpoint whose hostname labels a gauge.
EndpointOf(g) ==
    CASE g = "bor" -> args.bor
      [] g = "heimdall" -> args.heimdall
      [] g = "checkpoint" -> args.heimdall
      [] g = "local" -> args.staking

\* The fetcher that produces a gauge's reading, which is also the program
\* position of its call.
FetcherOf(g) ==
    CASE g = "bor" -> "bor"
      [] g = "heimdall" -> "heimdall"
      [] g = "checkpoint" -> "heimdall"
      [] g = "local" -> "local"

Fetchers == {"bor", "heimdall", "local"}

LabelsOf(gauge) == {p[1] : p \in gauge}
ValuesOf(gauge) == {p[2] : p \in gauge}

\* The request failed: an exception, or a response with another status than 200.
Failed(r) ==
    \/ r.kind = "exception"
    \/ r.kind = "response" /\ r.status_code # 200

Ok200(r) == r.kind = "response" /\ r.status_code = 200

\* The position that follows a fetcher's call in the loop.
AfterFetch(f) ==
    CASE f = "bor" -> "heimdall"
      [] f = "heimdall" -> "local"
      [] f = "local" -> "print"

----------------------------------------------------------------------------
\* C1: in the gauge-update step of every cycle, each of the four gauges is
\* set to the cycle's reading (under its endpoint's hostname) when the
\* reading is strictly greater than 1 and is left as it was when the reading
\* is 0 or 1 (a failed fetch reads 0); no other step changes a gauge.
C1_GaugeUpdateRule ==
    [][ /\ pc = "update" =>
             \A g \in Gauges :
                /\ Reading(g) > 1 =>
                     <<hostname(EndpointOf(g)), Reading(g)>> \in Gauge(g)'
                /\ Reading(g) <= 1 => Gauge(g)' = Gauge(g)
        /\ pc # "update" => UNCHANGED gaugeVars ]_vars

\* A cycle has published one reading and held back a reading of 1 and a
\* failed fetch.
C1_Witness ==
    /\ pc = "sleep"
    /\ cycle = 2
    /\ heimdall_height = 101 /\ 101 \in ValuesOf(heimdall)
    /\ checkpoint_height = 56
    /\ local_height = 1 /\ ValuesOf(local) = {42}
    /\ bor_height = 0 /\ resp.bor = TransportError

\* C2: a fetcher whose request raises a transport exception or whose
\* response has a status other than 200 returns 0.0 (both values 0.0 for
\* heimdall) and the loop goes on to the step after the fetcher.
C2_FetchersFailSoft ==
    [][ \A f \in Fetchers :
           (pc = f /\ Failed(resp'[f])) =>
               /\ pc' = AfterFetch(f)
               /\ \A g \in Gauges : FetcherOf(g) = f => Reading(g)' = 0 ]_vars

\* A second cycle in which two requests raised and one was answered 404
\* has run to its end.
C2_Witness ==
    /\ pc = "sleep"
    /\ cycle = 2
    /\ resp.bor = TransportError
    /\ resp.heimdall = Response(404, NotJSON)
    /\ resp.local = TransportError
    /\ bor_height = 0 /\ heimdall_height = 0
    /\ checkpoint_height = 0 /\ local_height = 0

\* A body of status 200 that is not of the expected shape.
Malformed(f, b) ==
    \/ ~b.json
    \/ f = "bor" /\ (~Has(b.data, "result") \/ ~Has(b.data.result, "number"))
    \/ f = "heimdall" /\ (\/ ~Has(b.data, "height")
                          \/ ~Has(b.data, "result")
                          \/ ~Has(b.data.result, "id"))
    \/ f = "local" /\ (\/ ~Has(b.data, "result")
                       \/ b.data.result = <<>>)

\* C3: a status-200 response whose body is malformed (not JSON, a missing
\* result.number / height / result.id, an empty result list of the local
\* fetcher) is not caught: the process terminates and takes no further step,
\* so no later cycle is executed.
C3_MalformedBodyIsFatal ==
    [][ /\ pc # "crashed"
        /\ \A f \in Fetchers :
              (pc = f /\ Ok200(resp'[f]) /\ Malformed(f, resp'[f].body)) =>
                  pc' = "crashed" ]_vars

\* The local fetcher has received an empty result list in the first cycle.
C3_Witness ==
    /\ pc = "crashed"
    /\ cycle = 1
    /\ resp.local = Response(200, JSON([result |-> <<>>]))

\* The values a line tag has been printed with, oldest first.
Printed(tag) ==
    LET lines == SelectSeq(stdout, LAMBDA line : line[1] = tag)
    IN  [i \in 1..Len(lines) |-> lines[i][2]]

TagOf(g) ==
    CASE g = "bor" -> "Bor"
      [] g = "heimdall" -> "Heimdall"
      [] g = "checkpoint" -> "Checkpoint"
      [] g = "local" -> "Local"

\* The readings obtained for a gauge so far: those of the earlier cycles,
\* which have been printed, and the one the loop holds now.
Observed(g) ==
    Printed(TagOf(g)) \o (IF Reading(g) = Unbound THEN <<>> ELSE <<Reading(g)>>)

\* The values a gauge shows when it follows the readings of a sequence:
\* the last one greater than 1, nothing when there is none.
RECURSIVE LatestAboveOne(_)
LatestAboveOne(readings) ==
    IF readings = <<>> THEN {}
    ELSE IF readings[Len(readings)] > 1 THEN {readings[Len(readings)]}
    ELSE LatestAboveOne(SubSeq(readings, 1, Len(readings) - 1))

\* C4 as stated: at every point each gauge shows the most recent reading
\* greater than 1 obtained for its source.
C4_AtEveryPoint ==
    \A g \in Gauges : ValuesOf(Gauge(g)) = LatestAboveOne(Observed(g))

\* C4 (amended): a gauge is never cleared, a reading that is not greater
\* than 1 leaves it as it was, and at the end of every completed cycle each
\* gauge shows the most recent reading greater than 1 obtained for its source.
C4_NeverClearedLatestAtCycleEnd ==
    /\ [](pc = "sleep" =>
             \A g \in Gauges : ValuesOf(Gauge(g)) = LatestAboveOne(Observed(g)))
    /\ [][ \A g \in Gauges :
              /\ LabelsOf(Gauge(g)) \subseteq LabelsOf(Gauge(g)')
              /\ Reading(g) <= 1 => Gauge(g)' = Gauge(g) ]_vars

\* A gauge set in the first cycle still shows its value after a second
\* cycle whose fetch failed.
C4_Witness ==
    /\ pc = "sleep"
    /\ cycle = 2
    /\ resp.local = TransportError
    /\ local_height = 0
    /\ ValuesOf(local) = {42}
    /\ checkpoint_height = 1
    /\ ValuesOf(checkpoint) = {56}

\* Every source has answered 200 with a body of the expected shape.
AllValid == \A f \in Fetchers : Ok200(resp[f]) /\ ~Malformed(f, resp[f].body)

\* Each gauge holds one pair: its endpoint's hostname with its reading.
FourPairs ==
    \A g \in Gauges : Gauge(g) = {<<hostname(EndpointOf(g)), Reading(g)>>}

\* C5 as stated: after a full cycle in which all three sources returned
\* valid data the registry holds exactly four label/value pairs, one per
\* gauge, the reading under the hostname of the gauge's endpoint.
C5_ValidDataGivesFourPairs ==
    (pc = "sleep" /\ AllValid) => FourPairs

\* C5 (amended): the same, for a cycle in which all three sources returned
\* valid data and each of the four readings is greater than 1.
C5_ValidDataAboveOneGivesFourPairs ==
    (pc = "sleep" /\ AllValid /\ \A g \in Gauges : Reading(g) > 1)
        => /\ FourPairs
           /\ LabelsOf(bor) = {<<"r", "p", "c">>}
           /\ LabelsOf(heimdall) = {<<"h", "d">>}
           /\ LabelsOf(checkpoint) = {<<"h", "d">>}
           /\ LabelsOf(local) = {<<"a", "p", "i">>}

\* The first cycle has read 26, 100, 55 and 42.
C5_Witness ==
    /\ pc = "sleep"
    /\ cycle = 1
    /\ AllValid
    /\ bor = {<<hostname(BorURL), 26>>}
    /\ heimdall = {<<hostname(HeimdallURL), 100>>}
    /\ checkpoint = {<<hostname(HeimdallURL), 55>>}
    /\ local = {<<hostname(StakingURL), 42>>}

\* C6: in every reachable state each of the four gauges holds at most one
\* label, and a label once present is the hostname of the gauge's endpoint.
C6_AtMostOneLabel ==
    \A g \in Gauges :
        /\ Cardinality(LabelsOf(Gauge(g))) <= 1
        /\ Cardinality(Gauge(g)) <= 1
        /\ LabelsOf(Gauge(g)) \subseteq {hostname(EndpointOf(g))}

\* A gauge has been written in two cycles with different values.
C6_Witness ==
    /\ pc = "sleep"
    /\ cycle = 2
    /\ Printed("Heimdall") = <<100, 101>>
    /\ heimdall = {<<hostname(HeimdallURL), 101>>}

\* A cycle has passed its writes to standard output.
Written == pc \in {"update", "sleep"}

\* C7 as stated: every completed cycle writes one line per fetcher.
C7_OneLinePerFetcher ==
    Written => Len(stdout) = Cardinality(Fetchers) * cycle

\* C7 (amended): every completed cycle writes four lines, one per extracted
\* value (Bor, Heimdall, Checkpoint, Local; the heimdall fetcher accounts
\* for two), each with the raw value, 0.0 for a failed fetch, whether or
\* not the value passes the gauge threshold.
C7_OneLinePerValue ==
    Written =>
        /\ Len(stdout) = 4 * cycle
        /\ stdout[4 * cycle - 3] = <<"Bor", bor_height>>
        /\ stdout[4 * cycle - 2] = <<"Heimdall", heimdall_height>>
        /\ stdout[4 * cycle - 1] = <<"Checkpoint", checkpoint_height>>
        /\ stdout[4 * cycle] = <<"Local", local_height>>
        /\ Failed(resp.bor) => stdout[4 * cycle - 3][2] = 0
        /\ Failed(resp.heimdall) =>
               stdout[4 * cycle - 2][2] = 0 /\ stdout[4 * cycle - 1][2] = 0
        /\ Failed(resp.local) => stdout[4 * cycle][2] = 0

\* A second cycle has printed a failed fetch, a reading of 1 and readings
\* that pass the threshold.
C7_Witness ==
    /\ pc = "sleep"
    /\ cycle = 2
    /\ Failed(resp.local)
    /\ SubSeq(stdout, 5, 8) = << <<"Bor", 1>>, <<"Heimdall", 100>>,
                                 <<"Checkpoint", 55>>, <<"Local", 0>> >>

\* The poll loop has been entered.
InLoop == pc \in {"bor", "heimdall", "local", "print", "update", "sleep", "crashed"}

\* C8: when binding the metrics server fails the process aborts at once:
\* no gauge is registered, no fetcher is invoked, the loop is not entered
\* and no further step is taken; gauges are registered and the loop entered
\* only with the server bound.
C8_BindFailureAborts ==
    /\ [](pc = "aborted" =>
             /\ ~httpd
             /\ REGISTRY \cap GaugeNames = {}
             /\ resp = NoResponses
             /\ \A g \in Gauges : Reading(g) = Unbound /\ Gauge(g) = {}
             /\ stdout = <<>>
             /\ cycle = 0)
    /\ []((REGISTRY \cap GaugeNames # {} \/ InLoop \/ cycle > 0) => httpd)
    /\ [][pc # "aborted"]_vars

\* The bind has failed.
C8_Witness == pc = "aborted" /\ REGISTRY = {}

\* The order of the steps of a cycle.
StepOrder ==
    /\ pc = "bor" => pc' \in {"heimdall", "crashed"}
    /\ pc = "heimdall" => pc' \in {"local", "crashed"}
    /\ pc = "local" => pc' \in {"print", "crashed"}
    /\ pc = "print" => pc' = "update"
    /\ pc = "update" => pc' = "sleep"
    /\ pc = "sleep" => pc' = "bor" /\ cycle' = cycle + 1
    /\ pc' = "bor" => pc \in {"register", "sleep"}

\* Each effect belongs to one step.
StepEffects ==
    /\ bor_height' # bor_height => pc = "bor"
    /\ <<heimdall_height, checkpoint_height>>' #
           <<heimdall_height, checkpoint_height>> => pc = "heimdall"
    /\ local_height' # local_height => pc = "local"
    /\ stdout' # stdout => pc = "print"
    /\ gaugeVars' # gaugeVars => pc = "update"

\* C9: every cycle runs bor fetch, heimdall fetch, local fetch, the writes
\* to standard output, the gauge updates and the sleep in this order, one at
\* a time; and the sleep that ends a cycle is always followed by the start
\* of the next cycle (cycles up to MaxCycles are explored).
C9_FixedOrderAndRepeat ==
    /\ [][StepOrder /\ StepEffects]_vars
    /\ \A c \in 1..(MaxCycles - 1) :
          (pc = "sleep" /\ cycle = c) ~> (pc = "bor" /\ cycle = c + 1)

\* A second cycle has started after a completed first one.
C9_Witness ==
    /\ pc = "bor"
    /\ cycle = 2
    /\ Len(stdout) = 4

\* What a gauge shows when it follows the printed readings.
PublishedFromLog(g) == LatestAboveOne(Printed(TagOf(g)))

\* C10: while the fetches of a cycle are under way, and after a fatal
\* payload error in one of them, standard output and the gauges are as the
\* previous cycles left them: a reading fetched earlier in the cycle is
\* neither printed nor published.
C10_FatalErrorPublishesNothing ==
    pc \in {"bor", "heimdall", "local", "crashed"} =>
        /\ Len(stdout) = 4 * (cycle - 1)
        /\ \A g \in Gauges : ValuesOf(Gauge(g)) = PublishedFromLog(g)

\* The second cycle has read a bor height of 26 and then died in the
\* heimdall fetcher; the bor gauge, not set in the first cycle, is empty.
C10_Witness ==
    /\ pc = "crashed"
    /\ cycle = 2
    /\ bor_height = 26
    /\ Ok200(resp.heimdall)
    /\ bor = {}
    /\ heimdall # {}
    /\ Len(stdout) = 4

====
